---------------------------- MODULE Spec2Model ----------------------------
(***************************************************************************)
(* A model of src/src/App.tsx: the prompt session of the single-page       *)
(* application (the state of the App component, handleSend and the         *)
(* browser's fetch/timer machinery it drives), the response extractor      *)
(* extractAssistantText and the escape normalizer unescapeNewlinesAndTabs. *)
(*                                                                         *)
(* Text is modelled as a sequence of one-character strings, so that trim,  *)
(* replace, template literals and "contains" are computed character by     *)
(* character.  A JavaScript value is a tagged record (field t names the    *)
(* type); an object is the sequence of its <<key, value>> properties.      *)
(***************************************************************************)
EXTENDS Integers, Sequences, FiniteSets, TLC

VARIABLES
    prompt,         \* useState: the prompt text                     (line 76)
    assistantText,  \* useState: the extracted assistant text        (line 77)
    loading,        \* useState: a request is pending                (line 78)
    error,          \* useState: null or the error message           (line 79)
    rawResponse,    \* useState: null or the parsed response         (line 80)
    responseView,   \* useState: "json" or "content"                 (line 81)
    calls,          \* the invocations of handleSend, in start order: each
                    \* one's position (pc), the prompt it sent and the
                    \* status of the response it holds
    timers,         \* the invocations whose setTimeout is still armed
    lastResponse,   \* the network log's last entry: how the last finished
                    \* invocation ended, with the status and body it got
    fnArg,          \* argument of the pure function under check
    fnRes,          \* its result
    fnPc            \* "off" | "ready" | "done"

vars == <<prompt, assistantText, loading, error, rawResponse, responseView,
          calls, timers, lastResponse, fnArg, fnRes, fnPc>>

session == <<prompt, assistantText, loading, error, rawResponse,
             responseView, calls, timers, lastResponse>>

(***************************************************************************)
(* Bounds of the model.                                                    *)
(***************************************************************************)
\* handleSend is started at most this many times in a behaviour
MaxRequests == 3
\* the strings given to the escape normalizer have at most this many characters
MaxLen == 5
\* the choices arrays given to the extractor have at most this many elements
MaxChoices == 2

(***************************************************************************)
(* Characters and text.                                                    *)
(***************************************************************************)
BS == "\\"
NL == "\n"
CR == "\r"
TAB == "\t"
DQ == "\""
SP == " "
\* U+2014, the placeholder the component renders for "nothing"
EmDash == "U+2014"

\* String.prototype.trim strips these (the white space of the model's alphabet)
WhiteSpace == {SP, NL, CR, TAB}

RECURSIVE TrimStart(_)
TrimStart(s) ==
    IF s = <<>> THEN <<>>
    ELSE IF Head(s) \in WhiteSpace THEN TrimStart(Tail(s)) ELSE s

RECURSIVE TrimEnd(_)
TrimEnd(s) ==
    IF s = <<>> THEN <<>>
    ELSE IF s[Len(s)] \in WhiteSpace THEN TrimEnd(SubSeq(s, 1, Len(s) - 1)) ELSE s

Trim(s) == TrimEnd(TrimStart(s))

\* String.prototype.replace with a global regular expression that matches the
\* literal text pat: every non-overlapping match, left to right
RECURSIVE ReplaceAll(_, _, _)
ReplaceAll(s, pat, rep) ==
    IF Len(s) < Len(pat) THEN s
    ELSE IF SubSeq(s, 1, Len(pat)) = pat
         THEN rep \o ReplaceAll(SubSeq(s, Len(pat) + 1, Len(s)), pat, rep)
         ELSE <<Head(s)>> \o ReplaceAll(Tail(s), pat, rep)

DigitChar(d) ==
    CASE d = 0 -> "0" [] d = 1 -> "1" [] d = 2 -> "2" [] d = 3 -> "3"
      [] d = 4 -> "4" [] d = 5 -> "5" [] d = 6 -> "6" [] d = 7 -> "7"
      [] d = 8 -> "8" [] d = 9 -> "9"

\* a non-negative integer in a template literal or in JSON.stringify
RECURSIVE NumberToString(_)
NumberToString(n) ==
    IF n < 10 THEN <<DigitChar(n)>>
    ELSE NumberToString(n \div 10) \o <<DigitChar(n % 10)>>

\* String.prototype.includes
Contains(s, sub) ==
    \E i \in 1..(Len(s) - Len(sub) + 1) : SubSeq(s, i, i + Len(sub) - 1) = sub

(***************************************************************************)
(* JavaScript values.                                                      *)
(***************************************************************************)
Undefined == [t |-> "undefined"]
JNull == [t |-> "null"]
JStr(s) == [t |-> "string", s |-> s]
JNum(n) == [t |-> "number", n |-> n]
JBool(b) == [t |-> "boolean", b |-> b]
JArr(a) == [t |-> "array", a |-> a]
JObj(o) == [t |-> "object", o |-> o]

\* ToBoolean: what !value and value || x test
Truthy(v) ==
    CASE v.t \in {"undefined", "null"} -> FALSE
      [] v.t = "string" -> v.s # <<>>
      [] v.t = "number" -> v.n # 0
      [] v.t = "boolean" -> v.b
      [] OTHER -> TRUE

\* the property names the component reads and writes
kChoices == <<"c", "h", "o", "i", "c", "e", "s">>
kMessage == <<"m", "e", "s", "s", "a", "g", "e">>
kContent == <<"c", "o", "n", "t", "e", "n", "t">>
kOutput == <<"o", "u", "t", "p", "u", "t">>
kData == <<"d", "a", "t", "a">>
kModel == <<"m", "o", "d", "e", "l">>
kMessages == <<"m", "e", "s", "s", "a", "g", "e", "s">>
kRole == <<"r", "o", "l", "e">>
\* the index 0, as a property name
kZero == <<"0">>

\* v?.k : optional chaining followed by a property read.  undefined and null
\* short-circuit to undefined; an object yields its own property k; an array
\* and a string yield their element at index k; every other read of the
\* names the component uses finds nothing.
OptGet(v, k) ==
    CASE v.t \in {"undefined", "null"} -> Undefined
      [] v.t = "object" ->
            IF \E i \in 1..Len(v.o) : v.o[i][1] = k
            THEN v.o[CHOOSE i \in 1..Len(v.o) : v.o[i][1] = k][2]
            ELSE Undefined
      [] v.t = "array" ->
            IF k = kZero /\ Len(v.a) >= 1 THEN v.a[1] ELSE Undefined
      [] v.t = "string" ->
            IF k = kZero /\ Len(v.s) >= 1 THEN JStr(<<v.s[1]>>) ELSE Undefined
      [] OTHER -> Undefined

(***************************************************************************)
(* Program constants.                                                      *)
(***************************************************************************)
DEFAULT_MODEL == <<"d", "e", "e", "p", "s", "e", "e", "k", "-", "c", "h", "a", "t">>
FETCH_TIMEOUT_MS == 120000

(***************************************************************************)
(* extractAssistantText: the fixed-priority search of the three shapes.    *)
(***************************************************************************)
extractAssistantText_OutputFirst(data) ==
    LET openAiText == OptGet(OptGet(OptGet(OptGet(data, kChoices), kZero), kMessage), kContent)
        outputContent == OptGet(OptGet(data, kOutput), kContent)
        nestedContent ==
            OptGet(OptGet(OptGet(OptGet(OptGet(data, kData), kChoices), kZero), kMessage), kContent)
    IN  IF outputContent.t = "string" /\ Len(outputContent.s) > 0 THEN outputContent.s
        ELSE IF openAiText.t = "string" /\ Len(openAiText.s) > 0 THEN openAiText.s
        ELSE IF nestedContent.t = "string" /\ Len(nestedContent.s) > 0 THEN nestedContent.s
        ELSE <<>>

extractAssistantText(data) ==
    LET openAiText == OptGet(OptGet(OptGet(OptGet(data, kChoices), kZero), kMessage), kContent)
        outputContent == OptGet(OptGet(data, kOutput), kContent)
        nestedContent ==
            OptGet(OptGet(OptGet(OptGet(OptGet(data, kData), kChoices), kZero), kMessage), kContent)
    IN  IF openAiText.t = "string" /\ Len(openAiText.s) > 0 THEN openAiText.s
        ELSE IF outputContent.t = "string" /\ Len(outputContent.s) > 0 THEN outputContent.s
        ELSE IF nestedContent.t = "string" /\ Len(nestedContent.s) > 0 THEN nestedContent.s
        ELSE <<>>

(***************************************************************************)
(* unescapeNewlinesAndTabs.  The result is a completion: the function      *)
(* throws a TypeError when value is truthy and has no replace method.      *)
(***************************************************************************)
Normal(s) == [threw |-> FALSE, val |-> s]
Throws == [threw |-> TRUE, val |-> <<>>]

unescapeNewlinesAndTabs_LfFirst(value) ==
    IF ~Truthy(value) THEN Normal(<<>>)
    ELSE IF value.t # "string" THEN Throws
    ELSE Normal(ReplaceAll(ReplaceAll(ReplaceAll(value.s,
                    <<BS, "n">>, <<NL>>),
                    <<BS, "r", BS, "n">>, <<NL>>),
                    <<BS, "t">>, <<SP, SP, SP, SP>>))

unescapeNewlinesAndTabs(value) ==
    IF ~Truthy(value) THEN Normal(<<>>)
    ELSE IF value.t # "string" THEN Throws
    ELSE Normal(ReplaceAll(ReplaceAll(ReplaceAll(value.s,
                    <<BS, "r", BS, "n">>, <<NL>>),
                    <<BS, "n">>, <<NL>>),
                    <<BS, "t">>, <<SP, SP, SP, SP>>))

(***************************************************************************)
(* JSON.stringify(value, null, space) of a parsed JSON value or of the     *)
(* request payload (neither holds undefined, a function or a cycle).       *)
(***************************************************************************)
Spaces(n) == [i \in 1..n |-> SP]

EscapeChar(c) ==
    CASE c = DQ -> <<BS, DQ>>
      [] c = BS -> <<BS, BS>>
      [] c = NL -> <<BS, "n">>
      [] c = CR -> <<BS, "r">>
      [] c = TAB -> <<BS, "t">>
      [] OTHER -> <<c>>

RECURSIVE Quote(_)
\* the characters of s, escaped, without the surrounding quotes
Quote(s) == IF s = <<>> THEN <<>> ELSE EscapeChar(Head(s)) \o Quote(Tail(s))

QuoteString(s) == <<DQ>> \o Quote(s) \o <<DQ>>

RECURSIVE Join(_, _)
Join(parts, sep) ==
    IF Len(parts) = 0 THEN <<>>
    ELSE IF Len(parts) = 1 THEN parts[1]
    ELSE parts[1] \o sep \o Join(Tail(parts), sep)

RECURSIVE JsonStringify(_, _, _)
JsonStringify(v, space, indent) ==
    LET inner == indent + space
        open == IF space > 0 THEN <<NL>> \o Spaces(inner) ELSE <<>>
        close == IF space > 0 THEN <<NL>> \o Spaces(indent) ELSE <<>>
        sep == <<",">> \o open
        colon == IF space > 0 THEN <<":", SP>> ELSE <<":">>
    IN  CASE v.t = "string" -> QuoteString(v.s)
          [] v.t = "number" -> NumberToString(v.n)
          [] v.t = "boolean" -> IF v.b THEN <<"t", "r", "u", "e">>
                                       ELSE <<"f", "a", "l", "s", "e">>
          [] v.t = "array" ->
                IF Len(v.a) = 0 THEN <<"[", "]">>
                ELSE <<"[">> \o open
                     \o Join([i \in 1..Len(v.a) |-> JsonStringify(v.a[i], space, inner)], sep)
                     \o close \o <<"]">>
          [] v.t = "object" ->
                IF Len(v.o) = 0 THEN <<"{", "}">>
                ELSE <<"{">> \o open
                     \o Join([i \in 1..Len(v.o) |->
                                QuoteString(v.o[i][1]) \o colon
                                \o JsonStringify(v.o[i][2], space, inner)], sep)
                     \o close \o <<"}">>
          [] OTHER -> <<"n", "u", "l", "l">>

(***************************************************************************)
(* The component's derived values and what it renders.                     *)
(***************************************************************************)
SystemMessage ==
    JObj(<< <<kRole, JStr(<<"s", "y", "s", "t", "e", "m">>)>>,
            <<kContent, JStr(<<"Y", "o", "u", " ", "a", "r", "e", " ", "a", " ", "h", "e",
                               "l", "p", "f", "u", "l", " ", "a", "s", "s", "i", "s", "t",
                               "a", "n", "t", ".">>)>> >>)

requestPayload ==
    JObj(<< <<kModel, JStr(DEFAULT_MODEL)>>,
            <<kMessages,
              JArr(<< SystemMessage,
                      JObj(<< <<kRole, JStr(<<"u", "s", "e", "r">>)>>,
                              <<kContent, JStr(prompt)>> >>) >>)>> >>)

responseJsonString ==
    IF ~Truthy(rawResponse) THEN <<EmDash>>
    ELSE JsonStringify(rawResponse, 2, 0)

outputContentUnescaped ==
    LET r == unescapeNewlinesAndTabs(OptGet(OptGet(rawResponse, kOutput), kContent))
    IN  IF r.threw THEN <<>> ELSE r.val

\* the <pre> of the response panel
ResponsePane ==
    IF responseView = "json" THEN responseJsonString
    ELSE IF outputContentUnescaped # <<>> THEN outputContentUnescaped
    ELSE <<EmDash>>

\* the disabled attribute of the send button
SendDisabled_PromptOnly == Trim(prompt) = <<>>

SendDisabled == loading \/ Trim(prompt) = <<>>

\* the error box is rendered when error is truthy
ErrorBoxShown == Truthy(error)

(***************************************************************************)
(* What handleSend's catch clause stores.                                  *)
(***************************************************************************)
AbortError == [isDOMException |-> TRUE, isError |-> TRUE, name |-> "AbortError",
               message |-> <<"a", "b", "o", "r", "t", "e", "d">>]
ErrorObject(name, message) ==
    [isDOMException |-> FALSE, isError |-> TRUE, name |-> name, message |-> message]

TimeoutMessage_Milliseconds ==
    <<"R", "e", "q", "u", "e", "s", "t", " ", "t", "i", "m", "e", "d", " ", "o", "u", "t",
      " ", "a", "f", "t", "e", "r", " ">>
    \o NumberToString(FETCH_TIMEOUT_MS) \o <<"s">>

TimeoutMessage ==
    <<"R", "e", "q", "u", "e", "s", "t", " ", "t", "i", "m", "e", "d", " ", "o", "u", "t",
      " ", "a", "f", "t", "e", "r", " ">>
    \o NumberToString(FETCH_TIMEOUT_MS \div 1000) \o <<"s">>

HttpMessage_StatusOnly(status, text) ==
    <<"H", "T", "T", "P", " ">> \o NumberToString(status)

HttpMessage(status, text) ==
    <<"H", "T", "T", "P", " ">> \o NumberToString(status) \o <<":", " ">> \o text

CatchMessage(e) ==
    IF e.isDOMException /\ e.name = "AbortError" THEN TimeoutMessage
    ELSE IF e.isError THEN e.message
    ELSE <<"U", "n", "k", "n", "o", "w", "n", " ", "e", "r", "r", "o", "r">>

(***************************************************************************)
(* The endpoint and the browser: what a response can be.                   *)
(***************************************************************************)
NoBody == [t |-> "none"]
\* a body whose text is not JSON
TextBody(s) == [t |-> "text", s |-> s]
\* a body whose text is the JSON text of v
JsonBody(v) == [t |-> "json", v |-> v]

\* Response.ok
ResponseOk(status) == status \in 200..299

\* await response.text()
ResponseText(body) ==
    IF body.t = "json" THEN JsonStringify(body.v, 0, 0) ELSE body.s

SyntaxError ==
    ErrorObject("SyntaxError", <<"U", "n", "e", "x", "p", "e", "c", "t", "e", "d", " ",
                                 "t", "o", "k", "e", "n">>)
\* what fetch and a body read reject with when the network fails
NetworkError ==
    ErrorObject("TypeError", <<"F", "a", "i", "l", "e", "d", " ", "t", "o", " ",
                               "f", "e", "t", "c", "h">>)

\* await response.json(): the parsed value, or the SyntaxError thrown
ResponseJson(body) ==
    IF body.t = "json" THEN [threw |-> FALSE, val |-> body.v, exc |-> SyntaxError]
    ELSE [threw |-> TRUE, val |-> JNull, exc |-> SyntaxError]

MessageOf(content) == JObj(<< <<kMessage, JObj(<< <<kContent, content>> >>)>> >>)
OpenAiShape(text) == JObj(<< <<kChoices, JArr(<<MessageOf(JStr(text))>>)>> >>)
OutputShape(text) == JObj(<< <<kOutput, JObj(<< <<kContent, JStr(text)>> >>)>> >>)
NestedShape(text) == JObj(<< <<kData, OpenAiShape(text)>> >>)
BothShapes(a, b) ==
    JObj(<< <<kChoices, JArr(<<MessageOf(JStr(a))>>)>>,
            <<kOutput, JObj(<< <<kContent, JStr(b)>> >>)>> >>)

\* the parsed JSON values the modelled endpoint answers with
JsonValues ==
    { OpenAiShape(<<"H", "i", BS, "n">>),
      OutputShape(<<"a", BS, "n", "b", BS, "t">>),
      NestedShape(<<"N">>),
      BothShapes(<<"A">>, <<"B">>),
      JObj(<< <<kOutput, JObj(<< <<kContent, JNum(5)>> >>)>> >>),
      JObj(<< <<kChoices, JArr(<<>>)>> >>),
      JObj(<<>>), JArr(<<>>), JNull, JNum(0), JBool(FALSE), JStr(<<>>) }

\* the texts of the bodies that are not JSON
BodyTexts ==
    { <<"s", "e", "r", "v", "e", "r", " ", "e", "r", "r", "o", "r">>,
      <<"<", "h", "t", "m", "l", ">">>,
      <<>> }

Bodies == {JsonBody(v) : v \in JsonValues} \cup {TextBody(s) : s \in BodyTexts}

Statuses == {200, 404, 500}

DefaultPrompt ==
    <<"E", "x", "p", "l", "a", "i", "n", " ", "h", "o", "w", " ", "t", "r", "a", "n", "s",
      "f", "o", "r", "m", "e", "r", "s", " ", "p", "r", "o", "c", "e", "s", "s", " ", "t",
      "o", "k", "e", "n", "s", " ", "i", "n", " ", "s", "i", "m", "p", "l", "e", " ", "t",
      "e", "r", "m", "s", ".">>

\* what the user types into the textarea
PromptValues == { DefaultPrompt, <<"H", "e", "l", "l", "o">>, <<SP, NL>>, <<>> }

(***************************************************************************)
(* The session: the state after construction, and one action per handler   *)
(* or continuation of handleSend.  JavaScript runs each to completion, and *)
(* React applies the state updates of one run together.                    *)
(***************************************************************************)
NoResponse == [id |-> 0, status |-> 0, body |-> NoBody, end |-> "none"]

\* an invocation that has returned holds no request and no response any more
Returned == [pc |-> "done", sent |-> <<>>, status |-> 0]

Pending == {"fetch", "text", "json"}
InFlight == {i \in 1..Len(calls) : calls[i].pc \in Pending}

SessionInit ==
    /\ prompt = DefaultPrompt
    /\ assistantText = <<>>
    /\ loading = FALSE
    /\ error = JNull
    /\ rawResponse = JNull
    /\ responseView = "json"
    /\ calls = <<>>
    /\ timers = {}
    /\ lastResponse = NoResponse

\* the pure-function variables are idle in the session's specifications
fnIdle == <<fnArg, fnRes, fnPc>>

FnOff ==
    /\ fnArg = Undefined
    /\ fnRes = Normal(<<>>)
    /\ fnPc = "off"

Init == SessionInit /\ FnOff

\* onChange of the textarea
SetPrompt(p) ==
    /\ p # prompt
    /\ prompt' = p
    /\ UNCHANGED <<assistantText, loading, error, rawResponse, responseView,
                   calls, timers, lastResponse, fnIdle>>

\* onChange of the checkbox
ToggleView ==
    /\ responseView' = IF responseView = "json" THEN "content" ELSE "json"
    /\ UNCHANGED <<prompt, assistantText, loading, error, rawResponse,
                   calls, timers, lastResponse, fnIdle>>

handleSend_KeepsError ==
    /\ Len(calls) < MaxRequests
    /\ IF SendDisabled
       THEN UNCHANGED vars
       ELSE /\ loading' = TRUE
            /\ assistantText' = <<>>
            /\ rawResponse' = JNull
            /\ calls' = Append(calls, [pc |-> "fetch",
                                       sent |-> JsonStringify(requestPayload, 0, 0),
                                       status |-> 0])
            /\ timers' = timers \cup {Len(calls) + 1}
            /\ UNCHANGED <<prompt, error, responseView, lastResponse, fnIdle>>

\* A click on the send button.  A disabled button delivers no click; an
\* enabled one runs handleSend to its first await: the four state updates,
\* the AbortController, the armed timer and the fetch call.
handleSend ==
    /\ Len(calls) < MaxRequests
    /\ IF SendDisabled
       THEN UNCHANGED vars
       ELSE /\ loading' = TRUE
            /\ error' = JNull
            /\ assistantText' = <<>>
            /\ rawResponse' = JNull
            /\ calls' = Append(calls, [pc |-> "fetch",
                                       sent |-> JsonStringify(requestPayload, 0, 0),
                                       status |-> 0])
            /\ timers' = timers \cup {Len(calls) + 1}
            /\ UNCHANGED <<prompt, responseView, lastResponse, fnIdle>>

\* catch (e) { setError(...) } finally { setLoading(false) }
Catch(id, e, how, body) ==
    /\ error' = JStr(CatchMessage(e))
    /\ loading' = FALSE
    /\ calls' = [calls EXCEPT ![id] = Returned]
    /\ lastResponse' = [id |-> id, status |-> calls[id].status, body |-> body, end |-> how]
    /\ UNCHANGED <<prompt, assistantText, rawResponse, responseView, fnIdle>>

\* fetch resolves with the response's status and headers: the timer is
\* cleared and the body read begins (text() of an error, json() otherwise)
FetchResolve(id, status) ==
    /\ calls[id].pc = "fetch"
    /\ timers' = timers \ {id}
    /\ calls' = [calls EXCEPT ![id].pc = IF ResponseOk(status) THEN "json" ELSE "text",
                              ![id].status = status]
    /\ UNCHANGED <<prompt, assistantText, loading, error, rawResponse, responseView,
                   lastResponse, fnIdle>>

\* fetch rejects (the network failed): clearTimeout is skipped
FetchReject(id) ==
    /\ calls[id].pc = "fetch"
    /\ Catch(id, NetworkError, "fetch-rejected", NoBody)
    /\ UNCHANGED timers

\* response.text() resolves: throw new Error(`HTTP ${status}: ${text}`)
TextResolve(id, body) ==
    /\ calls[id].pc = "text"
    /\ Catch(id, ErrorObject("Error", HttpMessage(calls[id].status, ResponseText(body))),
             "http-error", body)
    /\ UNCHANGED timers

JsonSettle_NoExtract(id, body) ==
    /\ calls[id].pc = "json"
    /\ LET r == ResponseJson(body)
       IN  IF r.threw
           THEN Catch(id, r.exc, "json-rejected", body)
           ELSE /\ rawResponse' = r.val
                /\ loading' = FALSE
                /\ calls' = [calls EXCEPT ![id] = Returned]
                /\ lastResponse' = [id |-> id, status |-> calls[id].status,
                                    body |-> body, end |-> "committed"]
                /\ UNCHANGED <<prompt, assistantText, error, responseView, fnIdle>>
    /\ UNCHANGED timers

JsonSettle_IgnoresBadJson(id, body) ==
    /\ calls[id].pc = "json"
    /\ LET r == ResponseJson(body)
       IN  /\ rawResponse' = r.val
           /\ assistantText' = extractAssistantText(r.val)
           /\ loading' = FALSE
           /\ calls' = [calls EXCEPT ![id] = Returned]
           /\ lastResponse' = [id |-> id, status |-> calls[id].status, body |-> body,
                               end |-> IF r.threw THEN "json-rejected" ELSE "committed"]
           /\ UNCHANGED <<prompt, error, responseView, fnIdle>>
    /\ UNCHANGED timers

\* response.json() settles: the parsed value is committed, or the
\* SyntaxError of a body that is not JSON is caught
JsonSettle(id, body) ==
    /\ calls[id].pc = "json"
    /\ LET r == ResponseJson(body)
       IN  IF r.threw
           THEN Catch(id, r.exc, "json-rejected", body)
           ELSE /\ rawResponse' = r.val
                /\ assistantText' = extractAssistantText(r.val)
                /\ loading' = FALSE
                /\ calls' = [calls EXCEPT ![id] = Returned]
                /\ lastResponse' = [id |-> id, status |-> calls[id].status,
                                    body |-> body, end |-> "committed"]
                /\ UNCHANGED <<prompt, error, responseView, fnIdle>>
    /\ UNCHANGED timers

\* the body read rejects (the connection failed after the headers)
BodyReject(id) ==
    /\ calls[id].pc \in {"text", "json"}
    /\ Catch(id, NetworkError, "body-rejected", NoBody)
    /\ UNCHANGED timers

\* the timer's callback: controller.abort().  A pending fetch or body read
\* of that controller rejects with an AbortError; a finished one ignores it.
TimerFire(id) ==
    /\ id \in timers
    /\ timers' = timers \ {id}
    /\ IF calls[id].pc \in Pending
       THEN Catch(id, AbortError, "aborted", NoBody)
       ELSE UNCHANGED <<prompt, assistantText, loading, error, rawResponse,
                        responseView, calls, lastResponse, fnIdle>>

Next ==
    \/ handleSend
    \/ ToggleView
    \/ \E p \in PromptValues : SetPrompt(p)
    \/ \E id \in 1..Len(calls), status \in Statuses : FetchResolve(id, status)
    \/ \E id \in 1..Len(calls) : FetchReject(id)
    \/ \E id \in 1..Len(calls), body \in Bodies : TextResolve(id, body)
    \/ \E id \in 1..Len(calls), body \in Bodies : JsonSettle(id, body)
    \/ \E id \in 1..Len(calls) : BodyReject(id)
    \/ \E id \in 1..Len(calls) : TimerFire(id)

Spec == Init /\ [][Next]_vars

\* a browser timer that is armed fires; the endpoint owes nothing
LiveSpec == Spec /\ WF_vars(\E id \in 1..Len(calls) : TimerFire(id))

(***************************************************************************)
(* The escape normalizer on its own: every string of at most MaxLen        *)
(* characters over the characters its patterns are made of, absent input,  *)
(* and values that are no strings.                                         *)
(***************************************************************************)
NormAlphabet == {BS, "r", "n", "t", NL}

NormStrings == UNION {[1..k -> NormAlphabet] : k \in 0..MaxLen}

NormInputs ==
    {JStr(s) : s \in NormStrings} \cup {Undefined, JNull, JNum(0), JNum(5), JBool(TRUE)}

NormInit ==
    /\ SessionInit
    /\ fnArg \in NormInputs
    /\ fnRes = Normal(<<>>)
    /\ fnPc = "ready"

Normalize ==
    /\ fnPc = "ready"
    /\ fnRes' = unescapeNewlinesAndTabs(fnArg)
    /\ fnPc' = "done"
    /\ UNCHANGED <<fnArg, session>>

\* the normalizer applied to its own result
NormalizeAgain ==
    /\ fnPc = "done"
    /\ ~fnRes.threw
    /\ fnRes' = unescapeNewlinesAndTabs(JStr(fnRes.val))
    /\ fnPc' = "twice"
    /\ UNCHANGED <<fnArg, session>>

NormNext == Normalize \/ NormalizeAgain

NormSpec == NormInit /\ [][NormNext]_vars

(***************************************************************************)
(* The response extractor on its own: values built from every variant of   *)
(* each level of the three probes (absent, null, a wrong type, an array    *)
(* that is too short, an empty string, the text).                          *)
(***************************************************************************)
\* the properties of an object whose property key is v, or absent
Prop(key, v) == IF v.t = "undefined" THEN <<>> ELSE << <<key, v>> >>

ContentVariants(text) ==
    {Undefined, JNull, JStr(<<>>), JStr(text), JNum(5), JArr(<<JStr(text)>>)}

MessageVariants(text) ==
    {Undefined, JNull, JStr(text)}
    \cup {JObj(Prop(kContent, c)) : c \in ContentVariants(text)}

ElementVariants(text) ==
    {JNull, JStr(text)} \cup {JObj(Prop(kMessage, m)) : m \in MessageVariants(text)}

\* further elements of a choices array, which the probes never read
Filler(n) == [i \in 1..n |-> MessageOf(JStr(<<"Z">>))]

ChoicesVariants(text) ==
    {Undefined, JNull, JStr(text), JNum(0), JArr(<<>>)}
    \cup {JArr(<<e>> \o Filler(n)) : e \in ElementVariants(text), n \in 0..(MaxChoices - 1)}
    \cup {JObj(Prop(kZero, e)) : e \in {JNull, MessageOf(JStr(text)), MessageOf(JStr(<<>>))}}

OutputVariants(text) ==
    {Undefined, JNull, JStr(text), JArr(<<>>)}
    \cup {JObj(Prop(kContent, c)) : c \in ContentVariants(text)}

DataVariants(text) ==
    {Undefined, JNull, JNum(5)}
    \cup {JObj(Prop(kChoices, ch)) :
            ch \in {Undefined, JNull, JArr(<<>>), JArr(<<MessageOf(JNull)>>),
                    JArr(<<MessageOf(JStr(<<>>))>>), JArr(<<MessageOf(JStr(text))>>)}}

ExtractInputs ==
    {JNull, JNum(5), JBool(TRUE), JStr(<<"A">>), JArr(<<>>), JArr(<<OpenAiShape(<<"A">>)>>)}
    \cup {JObj(Prop(kChoices, ch) \o Prop(kOutput, out) \o Prop(kData, d)) :
            ch \in ChoicesVariants(<<"A">>), out \in OutputVariants(<<"B">>),
            d \in DataVariants(<<"N">>)}

ExtractInit ==
    /\ SessionInit
    /\ fnArg \in ExtractInputs
    /\ fnRes = Normal(<<>>)
    /\ fnPc = "ready"

Extract ==
    /\ fnPc = "ready"
    /\ fnRes' = Normal(extractAssistantText(fnArg))
    /\ fnPc' = "done"
    /\ UNCHANGED <<fnArg, session>>

ExtractNext == Extract

ExtractSpec == ExtractInit /\ [][ExtractNext]_vars

(***************************************************************************)
(* The claims.                                                             *)
(***************************************************************************)
Latest == Len(calls)
\* the last finished invocation is the most recently started one
LatestEnded == Latest > 0 /\ lastResponse.id = Latest
Failures == {"fetch-rejected", "http-error", "json-rejected", "body-rejected", "aborted"}
Blank(s) == \A i \in 1..Len(s) : s[i] \in WhiteSpace

\* C1: a step starts a network call only from a state where no request is
\* pending and the prompt holds a character that is not white space; a click
\* on send while a request is pending changes nothing; and in every reachable
\* state at most one request is in flight.
C1_OneRequestInFlight ==
    /\ [](Cardinality(InFlight) <= 1)
    /\ [][Len(calls') > Len(calls) => (~loading /\ ~Blank(prompt) /\ InFlight = {})]_vars
    /\ [][(loading /\ handleSend) => UNCHANGED vars]_vars

\* a second request is pending, alone, after the first one has finished
C1_Witness == loading /\ Latest = 2 /\ InFlight = {2} /\ lastResponse.id = 1

\* C2: in every reachable state the stored assistant text is the extractor's
\* result on the stored raw response (empty when none is stored), and a stored
\* result is the body delivered to the most recently started request.
C2_TextFromLatestResponse ==
    /\ assistantText = extractAssistantText(rawResponse)
    /\ (rawResponse.t # "null" \/ assistantText # <<>>) =>
          /\ LatestEnded
          /\ lastResponse.end = "committed"
          /\ lastResponse.body = JsonBody(rawResponse)

\* the second request's response, of both shapes, is stored with its text
C2_Witness ==
    /\ Latest = 2
    /\ rawResponse = BothShapes(<<"A">>, <<"B">>)
    /\ assistantText = <<"A">>

\* C3: when the timer of a request whose fetch has not resolved fires, the
\* call is aborted and the session is Failed: loading is false, no raw
\* response is stored and the error message is the timeout message, which
\* carries the deadline in seconds ("120s").
C3_TimeoutFails ==
    (LatestEnded /\ lastResponse.end = "aborted") =>
        /\ calls[Latest].pc = "done"
        /\ InFlight = {}
        /\ ~loading
        /\ rawResponse = JNull
        /\ assistantText = <<>>
        /\ error.t = "string"
        /\ Contains(error.s, NumberToString(FETCH_TIMEOUT_MS \div 1000) \o <<"s">>)
        /\ Contains(error.s, <<"1", "2", "0">>)
        /\ ~Contains(error.s, <<"1", "2", "0", "0">>)

\* the endpoint never answered the request (no status) and the timer fired
C3_Witness ==
    /\ LatestEnded
    /\ lastResponse.end = "aborted"
    /\ lastResponse.status = 0
    /\ Latest \notin timers

\* C4: after any failure of the latest request the session is Failed: a
\* non-empty error message is stored, loading is false, raw response and
\* assistant text are still cleared; after a non-success status whose body
\* was read, the message holds the status digits and the body text.
C4_FailureStoresMessage ==
    (LatestEnded /\ lastResponse.end \in Failures) =>
        /\ error.t = "string"
        /\ error.s # <<>>
        /\ ErrorBoxShown
        /\ ~loading
        /\ rawResponse = JNull
        /\ assistantText = <<>>
        /\ lastResponse.end = "http-error" =>
              /\ ~ResponseOk(lastResponse.status)
              /\ Contains(error.s, NumberToString(lastResponse.status))
              /\ Contains(error.s, ResponseText(lastResponse.body))
              /\ (lastResponse.status = 500 /\ lastResponse.body.t = "text") =>
                    Contains(error.s, <<"5", "0", "0">>)

\* HTTP 500 with the body text "server error"
C4_Witness ==
    /\ LatestEnded
    /\ lastResponse.end = "http-error"
    /\ lastResponse.status = 500
    /\ lastResponse.body = TextBody(<<"s", "e", "r", "v", "e", "r", " ", "e", "r", "r", "o", "r">>)
    /\ Contains(error.s, <<"5", "0", "0">>)
    /\ Contains(error.s, <<"s", "e", "r", "v", "e", "r", " ", "e", "r", "r", "o", "r">>)

RECURSIVE ReadPath(_, _)
\* the value at a path of property names and indices, Undefined when a step
\* cannot be taken
ReadPath(v, path) ==
    IF path = <<>> THEN v
    ELSE LET k == Head(path)
         IN  CASE v.t = "object" /\ (\E i \in 1..Len(v.o) : v.o[i][1] = k) ->
                    ReadPath(v.o[CHOOSE i \in 1..Len(v.o) : v.o[i][1] = k][2], Tail(path))
               [] v.t = "array" /\ k = kZero /\ Len(v.a) > 0 -> ReadPath(v.a[1], Tail(path))
               [] v.t = "string" /\ k = kZero /\ Len(v.s) > 0 ->
                    ReadPath(JStr(<<v.s[1]>>), Tail(path))
               [] OTHER -> Undefined

\* the non-empty string at the path, or no match (the empty string)
Match(v, path) ==
    LET r == ReadPath(v, path) IN IF r.t = "string" THEN r.s ELSE <<>>

ProbePaths ==
    << <<kChoices, kZero, kMessage, kContent>>,
       <<kOutput, kContent>>,
       <<kData, kChoices, kZero, kMessage, kContent>> >>

FirstMatch(v) ==
    IF \E i \in 1..3 : Match(v, ProbePaths[i]) # <<>>
    THEN Match(v, ProbePaths[CHOOSE i \in 1..3 :
                    /\ Match(v, ProbePaths[i]) # <<>>
                    /\ \A j \in 1..(i - 1) : Match(v, ProbePaths[j]) = <<>>])
    ELSE <<>>

\* a choices value through which the first probe cannot pass
NoChoices(v) ==
    LET ch == OptGet(v, kChoices)
    IN  \/ ch.t \in {"undefined", "null", "number", "boolean"}
        \/ ch.t = "array" /\ Len(ch.a) = 0
        \/ ch.t = "array" /\ ch.a[1].t # "object"

C6_ContentViewShowsExtractedText ==
    rawResponse.t # "null" =>
        outputContentUnescaped
            = unescapeNewlinesAndTabs(JStr(extractAssistantText(rawResponse))).val

MalformedDelivered ==
    /\ LatestEnded
    /\ ResponseOk(lastResponse.status)
    /\ lastResponse.end \in {"committed", "json-rejected"}
    /\ IF lastResponse.body.t = "json"
       THEN extractAssistantText(lastResponse.body.v) = <<>>
       ELSE TRUE

\* C7, as stated: a successful-status response whose body is not JSON, or is
\* JSON of an unrecognized shape, ends with no error message, empty extracted
\* text and the body shown in the JSON view.
C7_MalformedRaisesNoError ==
    MalformedDelivered =>
        /\ error = JNull
        /\ assistantText = <<>>
        /\ responseJsonString # <<EmDash>>

\* C7, as amended: JSON of an unrecognized shape ends with no error, empty
\* extracted text and the parsed value stored, which the JSON view shows
\* unless it is falsy; a body that is not JSON ends in Failed with the
\* parser's message, nothing stored and the placeholder in the JSON view.
C7_MalformedAmended ==
    MalformedDelivered =>
        /\ assistantText = <<>>
        /\ ~loading
        /\ IF lastResponse.body.t = "json"
           THEN /\ error = JNull
                /\ rawResponse = lastResponse.body.v
                /\ Truthy(rawResponse) =>
                      /\ responseJsonString # <<EmDash>>
                      /\ responseJsonString = JsonStringify(lastResponse.body.v, 2, 0)
                /\ ~Truthy(rawResponse) => responseJsonString = <<EmDash>>
           ELSE /\ error.t = "string"
                /\ error.s = SyntaxError.message
                /\ error.s # <<>>
                /\ rawResponse = JNull
                /\ responseJsonString = <<EmDash>>

\* a 200 response whose body is not JSON has been delivered
C7_Witness ==
    /\ LatestEnded
    /\ lastResponse.status = 200
    /\ lastResponse.end = "json-rejected"
    /\ lastResponse.body = TextBody(<<"<", "h", "t", "m", "l", ">">>)
    /\ error.t = "string"

RECURSIVE ScanNormalize(_)
ScanNormalize(s) ==
    IF s = <<>> THEN <<>>
    ELSE IF Len(s) >= 4 /\ SubSeq(s, 1, 4) = <<BS, "r", BS, "n">>
         THEN <<NL>> \o ScanNormalize(SubSeq(s, 5, Len(s)))
    ELSE IF Len(s) >= 2 /\ SubSeq(s, 1, 2) = <<BS, "n">>
         THEN <<NL>> \o ScanNormalize(SubSeq(s, 3, Len(s)))
    ELSE IF Len(s) >= 2 /\ SubSeq(s, 1, 2) = <<BS, "t">>
         THEN <<SP, SP, SP, SP>> \o ScanNormalize(SubSeq(s, 3, Len(s)))
    ELSE <<Head(s)>> \o ScanNormalize(Tail(s))

FreeOfEscapes(s) ==
    \A i \in 1..(Len(s) - 1) : ~(s[i] = BS /\ s[i + 1] \in {"n", "t"})

\* C8: the normalizer's result on a string is the string with each literal
\* \r\n and each literal \n replaced by one newline and each literal \t by
\* four spaces; absent or empty input gives the empty string; a string free
\* of the literal sequences is returned unchanged; and the normalizer applied
\* to its own result returns that result.
C8_NormalizerReplacesAndIsIdempotent ==
    /\ (fnPc = "done" /\ fnArg.t = "string") =>
          /\ fnRes = Normal(ScanNormalize(fnArg.s))
          /\ FreeOfEscapes(fnArg.s) => fnRes.val = fnArg.s
          /\ FreeOfEscapes(fnRes.val)
    /\ (fnPc = "done" /\ (fnArg.t \in {"undefined", "null"} \/ fnArg = JStr(<<>>))) =>
          fnRes = Normal(<<>>)
    /\ (fnPc = "twice" /\ fnArg.t \in {"string", "undefined", "null"}) =>
          fnRes = Normal(ScanNormalize(IF fnArg.t = "string" THEN fnArg.s ELSE <<>>))

\* the normalizer has run twice on the literal \r\n
C8_Witness ==
    /\ fnPc = "twice"
    /\ fnArg = JStr(<<BS, "r", BS, "n">>)
    /\ fnRes = Normal(<<NL>>)

ActiveStatuses ==
    (IF loading THEN {"Sending"} ELSE {})
    \cup (IF error.t # "null" THEN {"Failed"} ELSE {})
    \cup (IF ~loading /\ error.t = "null" /\ lastResponse.end = "committed"
          THEN {"Succeeded"} ELSE {})
    \cup (IF ~loading /\ error.t = "null" /\ lastResponse.end # "committed"
          THEN {"Idle"} ELSE {})

\* C9: exactly one session status is active: while a request is pending no
\* error message, no raw response and no assistant text is stored; and an
\* error message and a raw response are never stored together.
C9_OneStatusActive ==
    /\ Cardinality(ActiveStatuses) = 1
    /\ loading => (error = JNull /\ rawResponse = JNull /\ assistantText = <<>>)
    /\ loading => (~ErrorBoxShown /\ responseJsonString = <<EmDash>>)
    /\ ~(error.t # "null" /\ rawResponse.t # "null")
    /\ error.t # "null" => assistantText = <<>>

\* a request is pending after an earlier one failed with an HTTP error
C9_Witness ==
    /\ loading
    /\ lastResponse.end = "http-error"
    /\ lastResponse.id < Latest
    /\ error = JNull

\* C10: every send that enters Sending eventually leaves it.
C10_SendingEnds == loading ~> ~loading

=============================================================================
